---- MODULE Spec2Model ----
(***************************************************************************)
(* A model of image_processing/seamcarve.py: the cost graph built by       *)
(* calculate_sc_datas, SeamCarveData.choose_parent, and the carve loop of  *)
(* vertical_seamcarve (seam selection, removal, incremental repair and the *)
(* final crop).                                                            *)
(*                                                                         *)
(* Python lists are 0-based and TLA+ sequences 1-based: At(s, k) reads the *)
(* entry Python calls s[k].  A SeamCarveData object is named by the pair   *)
(* <<y, x>> it was constructed with; the variable sc is the heap, mapping  *)
(* each object to its fields, so that an object removed from its row still *)
(* exists and can still be referenced as somebody's parent.                *)
(*                                                                         *)
(* Gradient magnitudes (floats >= 0 in the source) are naturals in         *)
(* 0..MaxEnergy.  show_energy is taken at its default (False); min_e and   *)
(* max_e, computed by calculate_sc_datas, are never read and are left out. *)
(***************************************************************************)
EXTENDS Integers, Sequences, FiniteSets, TLC

MaxWidth == 4
MaxHeight == 3
MaxEnergy == 1

\* The percent arguments tried: with widths up to 4 they give every count from
\* 0 to the width.  For widths up to 5 and every percent of 0..100 the float
\* expression of the source and the integer one of carve_count agree.
Percents == {0, 25, 50, 75, 100}

None == <<>>

VARIABLES grad_mags, percent, show_carve, sc, energies, out_pixels,
          count, i, seam, sindex, pc

vars == <<grad_mags, percent, show_carve, sc, energies, out_pixels,
          count, i, seam, sindex, pc>>

height == Len(grad_mags)
width == Len(grad_mags[1])

At(s, k) == s[k + 1]
Max(a, b) == IF a > b THEN a ELSE b
Min(a, b) == IF a < b THEN a ELSE b

\* Python's s[start:end] for 0 <= start and 0 <= end.
Slice(s, start, end) == SubSeq(s, start + 1, Min(end, Len(s)))

Ref(y, x) == <<y, x>>

SeamCarveData(x, y) ==
    [energy |-> 0, x |-> x, y |-> y, parent_choices |-> <<>>, parent |-> None]

\* The heap h with the object r added.
Alloc(h, r, obj) == [n \in DOMAIN h \cup {r} |-> IF n = r THEN obj ELSE h[n]]

(***************************************************************************)
(* The input image: pixel (y, x) of the colour image.  The colours are     *)
(* pairwise distinct and differ from the marker and the padding, so the    *)
(* origin of every pixel of the output can be read off.                    *)
(***************************************************************************)
color_image(y, x) == <<x + 1, y + 1, 1, 255>>
MARKER == <<255, 0, 0, 254>>
PADDING == <<0, 0, 0, 0>>

(***************************************************************************)
(* SeamCarveData.choose_parent                                              *)
(***************************************************************************)
RECURSIVE scan_choices_le(_, _, _, _)
scan_choices_le(h, choices, k, best) ==
    IF k > Len(choices) THEN best
    ELSE scan_choices_le(h, choices, k + 1,
            IF h[choices[k]].energy <= h[best].energy THEN choices[k] ELSE best)

RECURSIVE scan_choices_gt(_, _, _, _)
scan_choices_gt(h, choices, k, best) ==
    IF k > Len(choices) THEN best
    ELSE scan_choices_gt(h, choices, k + 1,
            IF h[choices[k]].energy > h[best].energy THEN choices[k] ELSE best)

\* for choice in self.parent_choices: if choice.energy < new_parent_energy ...
RECURSIVE scan_choices(_, _, _, _)
scan_choices(h, choices, k, best) ==
    IF k > Len(choices) THEN best
    ELSE scan_choices(h, choices, k + 1,
            IF h[choices[k]].energy < h[best].energy THEN choices[k] ELSE best)

choose_parent(h, self) ==
    LET old_parent_energy ==
            IF h[self].parent = None THEN 0 ELSE h[h[self].parent].energy
        choices == h[self].parent_choices
        new_parent == scan_choices(h, choices, 1, choices[1])
        new_parent_energy == h[new_parent].energy
    IN  [h EXCEPT ![self].parent = new_parent,
                  ![self].energy = @ - old_parent_energy + new_parent_energy]

(***************************************************************************)
(* SeamCarveData.__lt__ and bisect.bisect_left over a row of objects       *)
(***************************************************************************)
lt(h, a, b) == h[a].x < h[b].x

RECURSIVE bisect_loop(_, _, _, _, _)
bisect_loop(h, a, e, lo, hi) ==
    IF lo < hi
    THEN LET mid == (lo + hi) \div 2
         IN  IF lt(h, At(a, mid), e)
             THEN bisect_loop(h, a, e, mid + 1, hi)
             ELSE bisect_loop(h, a, e, lo, mid)
    ELSE lo

bisect_left(h, a, e) == bisect_loop(h, a, e, 0, Len(a))

(***************************************************************************)
(* calculate_sc_datas                                                       *)
(***************************************************************************)
\* Left, middle, right of energies[-1], minding edges.
build_choices(prev, x, w) ==
    (IF x > 0 THEN <<At(prev, x - 1)>> ELSE <<>>)
    \o <<At(prev, x)>>
    \o (IF x < w - 1 THEN <<At(prev, x + 1)>> ELSE <<>>)

new_sc_data_x0(g, y, x) == [SeamCarveData(0, y) EXCEPT !.energy = g[y + 1][x + 1]]

\* sc_data = SeamCarveData(x=x, y=y); sc_data.energy = grad_mags[(y, x)]
new_sc_data(g, y, x) == [SeamCarveData(x, y) EXCEPT !.energy = g[y + 1][x + 1]]

\* for x in range(width): the state is the heap and the row built so far.
RECURSIVE row_loop(_, _, _, _, _, _)
row_loop(g, h, en, row, y, x) ==
    IF x = Len(g[1]) THEN [sc |-> h, row |-> row]
    ELSE LET r == Ref(y, x)
             fresh == new_sc_data(g, y, x)
             created ==
                 IF y > 0
                 THEN [fresh EXCEPT !.parent_choices =
                          build_choices(en[Len(en)], x, Len(g[1]))]
                 ELSE fresh
             h1 == Alloc(h, r, created)
             h2 == IF y > 0 THEN choose_parent(h1, r) ELSE h1
         IN  row_loop(g, h2, en, Append(row, r), y, x + 1)

\* for y in range(height): the state is the heap and the rows built so far.
RECURSIVE rows_loop(_, _, _, _)
rows_loop(g, h, en, y) ==
    IF y = Len(g) THEN [sc |-> h, energies |-> en]
    ELSE LET done == row_loop(g, h, en, <<>>, y, 0)
         IN  rows_loop(g, done.sc, Append(en, done.row), y + 1)

calculate_sc_datas(g) == rows_loop(g, <<>>, <<>>, 0)

(***************************************************************************)
(* vertical_seamcarve: seam selection                                       *)
(***************************************************************************)
\* count = math.floor(min(((100-percent) / 100) * image.width, image.width))
carve_count(p, w) == Min(((100 - p) * w) \div 100, w)

\* sorted(row, key=lambda sc_data: sc_data.energy): a stable sort.
RECURSIVE sorted(_, _)
sorted(h, row) ==
    IF row = <<>> THEN <<>>
    ELSE LET init == sorted(h, SubSeq(row, 1, Len(row) - 1))
             last == row[Len(row)]
             k == Cardinality({j \in 1..Len(init) :
                                  h[init[j]].energy <= h[last].energy})
         IN  SubSeq(init, 1, k) \o <<last>> \o SubSeq(init, k + 1, Len(init))

\* while parent is not None: seam.appendleft(parent); parent = parent.parent
RECURSIVE backtrace(_, _, _)
backtrace(h, s, parent) ==
    IF parent = None THEN s
    ELSE backtrace(h, <<parent>> \o s, h[parent].parent)

(***************************************************************************)
(* vertical_seamcarve: removal of one seam element                          *)
(***************************************************************************)
\* numpy.delete(row, index, axis=0) followed by the padding pixel.
delete_and_pad(row, index) ==
    SubSeq(row, 1, index) \o SubSeq(row, index + 2, Len(row)) \o <<PADDING>>

\* del row[index]
del_keep(row, index) == row

del(row, index) == SubSeq(row, 1, index) \o SubSeq(row, index + 2, Len(row))

(***************************************************************************)
(* vertical_seamcarve: repair of the row update_index                       *)
(***************************************************************************)
\* The left option taken without its edge test: Python's index -1 wraps around.
repair_choices_wrap(en, update_index, affected_index) ==
    <<At(At(en, update_index - 1),
         IF affected_index > 0 THEN affected_index - 1
         ELSE Len(At(en, update_index - 1)) - 1)>>
    \o <<At(At(en, update_index - 1), affected_index)>>
    \o (IF affected_index < Len(At(en, update_index)) - 1
        THEN <<At(At(en, update_index - 1), affected_index + 1)>> ELSE <<>>)

repair_choices(en, update_index, affected_index) ==
    (IF affected_index > 0
     THEN <<At(At(en, update_index - 1), affected_index - 1)>> ELSE <<>>)
    \o <<At(At(en, update_index - 1), affected_index)>>
    \o (IF affected_index < Len(At(en, update_index)) - 1
        THEN <<At(At(en, update_index - 1), affected_index + 1)>> ELSE <<>>)

\* for sc_data in affected: re-choose the parent options and the parent.
RECURSIVE update_affected(_, _, _, _, _)
update_affected(h, en, update_index, affected, k) ==
    IF k > Len(affected) THEN h
    ELSE LET sc_data == affected[k]
             affected_index == bisect_left(h, At(en, update_index), sc_data)
             h1 == [h EXCEPT ![sc_data].parent_choices =
                       repair_choices(en, update_index, affected_index)]
         IN  update_affected(choose_parent(h1, sc_data), en, update_index,
                             affected, k + 1)

\* affected = energies[update_index][start:end]
affected_window(row, update_elem_row_index, update_index) ==
    LET start == Max(update_elem_row_index - update_index, 0)
        end == update_elem_row_index + update_index
    IN  Slice(row, start, end)

repair(h, en, s, update_index) ==
    LET update_elem == At(s, update_index)
        row == At(en, update_index)
        update_elem_row_index == bisect_left(h, row, update_elem)
        affected == affected_window(row, update_elem_row_index, update_index)
    IN  update_affected(h, en, update_index, affected, 1)

(***************************************************************************)
(* vertical_seamcarve: the final crop                                       *)
(***************************************************************************)
\* numpy.hsplit(out_pixels, [at, at])[0]
hsplit_first(pixels, at) ==
    [y \in 1..Len(pixels) |-> SubSeq(pixels[y], 1, at)]

(***************************************************************************)
(* The state machine                                                        *)
(***************************************************************************)
Grids ==
    UNION {[1..h -> [1..w -> 0..MaxEnergy]] : h \in 1..MaxHeight, w \in 1..MaxWidth}

Init ==
    /\ grad_mags \in Grids
    /\ percent \in Percents
    /\ show_carve \in BOOLEAN
    /\ sc = <<>>
    /\ energies = <<>>
    /\ out_pixels = <<>>
    /\ count = 0
    /\ i = 0
    /\ seam = <<>>
    /\ sindex = 0
    /\ pc = "start"

\* (energies, (min_e, max_e)) = calculate_sc_datas(grad_mags)
CalculateScDatas ==
    /\ pc = "start"
    /\ LET built == calculate_sc_datas(grad_mags)
       IN  /\ sc' = built.sc
           /\ energies' = built.energies
    /\ pc' = "built"
    /\ UNCHANGED <<grad_mags, percent, show_carve, out_pixels, count, i, seam, sindex>>

\* out_pixels = numpy.asarray(color_image).copy(); count = ...; the loop starts.
StartCarving ==
    /\ pc = "built"
    /\ out_pixels' = [y \in 1..height |-> [x \in 1..width |-> color_image(y - 1, x - 1)]]
    /\ count' = carve_count(percent, width)
    /\ i' = 0
    /\ pc' = "carve"
    /\ UNCHANGED <<grad_mags, percent, show_carve, sc, energies, seam, sindex>>

\* The head of one iteration: seam_starts[i], the backtrace, the dummy element.
SelectSeam ==
    /\ pc = "carve"
    /\ i < count
    /\ LET seam_starts == sorted(sc, energies[Len(energies)])
       IN  IF i >= Len(seam_starts)
           THEN /\ pc' = "IndexError"
                /\ UNCHANGED <<seam, sindex>>
           ELSE LET min_sc_data == At(seam_starts, i)
                IN  /\ seam' = Append(backtrace(sc, <<min_sc_data>>,
                                                sc[min_sc_data].parent), None)
                    /\ sindex' = 0
                    /\ pc' = "seam"
    /\ UNCHANGED <<grad_mags, percent, show_carve, sc, energies, out_pixels, count, i>>

\* One pass of `for sindex, elem in enumerate(seam)`.
SeamStep ==
    /\ pc = "seam"
    /\ sindex < Len(seam)
    /\ LET elem == At(seam, sindex)
           row == At(energies, sc[elem].y)
           elem_row_index == bisect_left(sc, row, elem)
           removes == elem # None /\ ~show_carve
           raises == removes /\ elem_row_index >= Len(row)
           pixels ==
               IF elem = None THEN out_pixels
               ELSE IF show_carve
                    THEN [out_pixels EXCEPT ![sc[elem].y + 1][sc[elem].x + 1] = MARKER]
                    ELSE [out_pixels EXCEPT ![sc[elem].y + 1] =
                             delete_and_pad(@, elem_row_index)]
           removed ==
               IF removes
               THEN [energies EXCEPT ![sc[elem].y + 1] = del(@, elem_row_index)]
               ELSE energies
       IN  /\ out_pixels' = pixels
           /\ IF raises
              THEN /\ pc' = "IndexError"
                   /\ UNCHANGED <<sc, energies, i, sindex>>
              ELSE /\ energies' = removed
                   /\ sc' = IF sindex < 2 THEN sc
                            ELSE repair(sc, removed, seam, sindex - 1)
                   /\ sindex' = sindex + 1
                   /\ IF sindex + 1 = Len(seam)
                      THEN i' = i + 1 /\ pc' = "carve"
                      ELSE i' = i /\ pc' = "seam"
    /\ UNCHANGED <<grad_mags, percent, show_carve, count, seam>>

\* out_pixels = numpy.hsplit(...)[0]; return out_pixels
Finish ==
    /\ pc = "carve"
    /\ i = count
    /\ out_pixels' = hsplit_first(out_pixels, width - count)
    /\ pc' = "done"
    /\ UNCHANGED <<grad_mags, percent, show_carve, sc, energies, count, i, seam, sindex>>

Next == CalculateScDatas \/ StartCarving \/ SelectSeam \/ SeamStep \/ Finish

Spec == Init /\ [][Next]_vars

(***************************************************************************)
(* Vocabulary of the properties                                             *)
(***************************************************************************)
\* The statements below that the code violates are read over the runs whose
\* count is below the width, so that no violation rests on the missing check
\* of the count (C6).
Commit == ~show_carve
LoopTop == pc = "carve"
SeamChosen == pc = "seam" /\ sindex = 0
Started == pc \in {"carve", "seam", "done", "IndexError"}
Rows == 1..Len(energies)
Range(s) == {s[k] : k \in 1..Len(s)}
Abs(a) == IF a < 0 THEN 0 - a ELSE a
SetMin(S) == CHOOSE m \in S : \A o \in S : m <= o

RECURSIVE SumTo(_, _)
SumTo(f, n) == IF n = 0 THEN 0 ELSE f[n] + SumTo(f, n - 1)

\* The local energy of a node: the gradient magnitude it was built from.
Local(n) == grad_mags[n[1] + 1][n[2] + 1]

\* The positions above position k of a row, edge-clipped, in a row of length n.
Above(k, n) == {j \in {k - 1, k, k + 1} : 1 <= j /\ j <= n}

\* The cumulative energy a build from scratch gives the node at position k of
\* row y of the graph as it stands.
RECURSIVE Rebuilt(_, _)
Rebuilt(y, k) ==
    Local(energies[y][k])
    + (IF y = 1 THEN 0
       ELSE SetMin({Rebuilt(y - 1, j) : j \in Above(k, Len(energies[y - 1]))}))

\* The connected top-to-bottom paths of the graph, as positions per row.
Paths ==
    {p \in [Rows -> 1..Len(energies[1])] :
        \A y \in Rows : y < Len(energies) => Abs(p[y] - p[y + 1]) <= 1}
PathCost(p) == SumTo([y \in Rows |-> Local(energies[y][p[y]])], Len(energies))
SeamCost == SumTo([y \in Rows |-> Local(seam[y])], Len(energies))

\* The position at which the carve loop removes the seam node of row y.
SeamPos(y) == bisect_left(sc, energies[y], seam[y])

(***************************************************************************)
(* C1: after the first commit-mode removal and its repair, every surviving *)
(* node's cumulative energy equals the one a build from scratch gives.     *)
(***************************************************************************)
C1_RepairEqualsRebuild ==
    (LoopTop /\ Commit /\ i = 1 /\ count < width) =>
        \A y \in Rows : \A k \in 1..Len(energies[y]) :
            sc[energies[y][k]].energy = Rebuilt(y, k)

(***************************************************************************)
(* C2: in every iteration the selected seam has the least total local      *)
(* energy among the connected top-to-bottom paths of the graph.            *)
(***************************************************************************)
C2_AlwaysCheapestSeam ==
    (SeamChosen /\ count < width) => \A p \in Paths : SeamCost <= PathCost(p)

\* C2, amended: in the first iteration (i = 0) the selected seam has the least
\* total local energy among the connected top-to-bottom paths of the graph.
C2_FirstSeamCheapest ==
    (SeamChosen /\ i = 0) => \A p \in Paths : SeamCost <= PathCost(p)

C2_Witness ==
    /\ SeamChosen /\ i = 0 /\ Len(energies) >= 3
    /\ \E p \in Paths : SeamCost < PathCost(p)
    /\ \E y \in Rows : y < Len(energies) /\ SeamPos(y) # SeamPos(y + 1)

(***************************************************************************)
(* C3: in every iteration of a commit-mode carve, the positions of the     *)
(* seam's nodes in consecutive rows differ by at most 1.                   *)
(***************************************************************************)
C3_SeamConnected ==
    (SeamChosen /\ Commit) =>
        \A y \in Rows : y < Len(energies) => Abs(SeamPos(y) - SeamPos(y + 1)) <= 1

C3_Witness ==
    /\ SeamChosen /\ Commit /\ i >= 1
    /\ \E y \in Rows : seam[y] \notin Range(energies[y])
    /\ \E y \in Rows : y < Len(energies) /\ SeamPos(y) # SeamPos(y + 1)

(***************************************************************************)
(* C4: after k completed commit-mode iterations every row of the graph has *)
(* width - k nodes, and the returned grid has width - count columns.       *)
(***************************************************************************)
C4_RowLengths ==
    Commit =>
        /\ LoopTop => \A y \in Rows : Len(energies[y]) = width - i
        /\ pc = "done" =>
              /\ i = count
              /\ \A y \in 1..Len(out_pixels) : Len(out_pixels[y]) = width - count

C4_Witness ==
    pc = "done" /\ Commit /\ count >= 2 /\ Len(energies) >= 2

(***************************************************************************)
(* C5: whenever the count is below the width, the index i used to pick the *)
(* seam start is less than the length of the bottom row.                   *)
(***************************************************************************)
C5_SeamStartInRange ==
    (LoopTop /\ i < count /\ count < width) => i < Len(energies[Len(energies)])

(***************************************************************************)
(* C6: a carve whose count is >= width is rejected before anything is      *)
(* removed: it enters no iteration, returns no grid and does not fail      *)
(* part-way.                                                               *)
(***************************************************************************)
C6_CountRejected ==
    (Started /\ count >= width) => pc \notin {"seam", "done", "IndexError"}

(***************************************************************************)
(* C7: a show_carve run keeps every graph row at width nodes and returns a *)
(* grid of the original height and width whose pixels are the original     *)
(* ones or the marker.                                                     *)
(***************************************************************************)
C7_VisualizeKeepsGeometry ==
    (Started /\ show_carve /\ count < width) =>
        /\ \A y \in Rows : Len(energies[y]) = width
        /\ pc = "done" =>
              /\ Len(out_pixels) = height
              /\ \A y \in 1..Len(out_pixels) :
                    /\ Len(out_pixels[y]) = width
                    /\ \A x \in 1..Len(out_pixels[y]) :
                          out_pixels[y][x] \in {color_image(y - 1, x - 1), MARKER}

FreshGraph == pc = "built" \/ (pc \in {"carve", "seam"} /\ i = 0 /\ (pc = "seam" => sindex = 0))
Flat == \A y \in 1..height : \A x \in 1..width : grad_mags[y][x] = 0

C9_LeftmostTieBreak ==
    /\ FreshGraph =>
          \A y \in Rows : \A k \in 1..Len(energies[y]) :
              y > 1 =>
                 \E j \in Above(k, width) :
                    /\ sc[energies[y][k]].parent = energies[y - 1][j]
                    /\ \A q \in Above(k, width) :
                          /\ sc[energies[y - 1][j]].energy <= sc[energies[y - 1][q]].energy
                          /\ q < j => sc[energies[y - 1][j]].energy < sc[energies[y - 1][q]].energy
    /\ (SeamChosen /\ i = 0) =>
          \A n \in Range(energies[height]) :
              /\ sc[seam[height]].energy <= sc[n].energy
              /\ sc[n].energy = sc[seam[height]].energy => sc[seam[height]].x <= sc[n].x
    /\ (pc = "done" /\ Commit /\ count = 1 /\ Flat) =>
          \A y \in 1..height :
              /\ energies[y] = [k \in 1..(width - 1) |-> Ref(y - 1, k)]
              /\ out_pixels[y] = [k \in 1..(width - 1) |-> color_image(y - 1, k)]

C9_Witness ==
    pc = "done" /\ Commit /\ count = 1 /\ Flat /\ height = 3 /\ width = 3

(***************************************************************************)
(* C10: after every completed commit-mode removal and repair the parent of *)
(* every surviving node below row 0 is a node still present in the row     *)
(* above, and every node of a selected seam is present in its row.         *)
(***************************************************************************)
C10_NoDanglingParent ==
    (Commit /\ count < width) =>
        /\ LoopTop =>
              \A y \in Rows : \A k \in 1..Len(energies[y]) :
                  y > 1 => sc[energies[y][k]].parent \in Range(energies[y - 1])
        /\ SeamChosen => \A y \in Rows : seam[y] \in Range(energies[y])

====
